---- MODULE Spec2Model ----
(***************************************************************************)
(* Model of the Nova schedule component: ScheduleCog (cogs/schedule_cog.py) *)
(* with the calendar helpers of utils/google_calendar.py.                   *)
(*                                                                          *)
(* Spec      the cog: view / add / remove command tasks and the daily       *)
(*           summary loop, interleaved at their suspension points, against  *)
(*           a calendar provider whose calls may fail.                      *)
(* SpecDate  parse_relative_date applied to a day expression and a          *)
(*           reference date drawn from bounded sets.                        *)
(* SpecFetch get_events_for_day applied to what the provider's list call   *)
(*           returns for a day, or to its failure.                          *)
(* SpecSend  send_long_message (utils/discord_utils.py) applied to a text   *)
(*           and a prefix drawn from bounded sets, one loop iteration per   *)
(*           step; FairSpecSend adds that a started call keeps running.     *)
(* SpecBot   the bot: on_ready events, each constructing the cog again, and *)
(*           the daily loops of the constructed cogs over several days;     *)
(*           FairSpecBot adds the resumption of suspended firings.          *)
(***************************************************************************)
EXTENDS Integers, Sequences, FiniteSets, TLC

VARIABLES
    calendar_service,    \* ScheduleCog.calendar_service is truthy
    notify_configured,   \* notify_channel_id and daily_summary_time_obj are set
    last_viewed_events,  \* ScheduleCog.last_viewed_events: dict author id -> list
    calendar,            \* the provider's primary calendar: date -> events in start order
    task,                \* command invocations, in the order they were issued
    loop,                \* the daily_schedule_summary loop
    today,               \* datetime.date.today(), as a proleptic ordinal
    day_str,             \* SpecDate: the expression given to parse_relative_date
    resolved,            \* SpecDate: what parse_relative_date returned
    dpc,                 \* SpecDate: "input" before the call, "returned" after
    list_outcome,        \* SpecFetch: what the provider's list call does
    got,                 \* SpecFetch: what get_events_for_day returned
    fpc,                 \* SpecFetch: "input" before the call, "returned" after
    ready_count,         \* SpecBot: the on_ready events handled so far
    cogs,                \* SpecBot: the ScheduleCog instances constructed, in order
    bot_cog,             \* SpecBot: the instance the bot holds as its cog, 0 for none
    long_message         \* SpecSend: one call of send_long_message

vars == <<calendar_service, notify_configured, last_viewed_events, calendar,
          task, loop, today, day_str, resolved, dpc, list_outcome, got, fpc,
          ready_count, cogs, bot_cog, long_message>>

cogVars == <<calendar_service, notify_configured, last_viewed_events, calendar,
             task, loop>>

dateVars == <<day_str, resolved, dpc>>

fetchVars == <<list_outcome, got, fpc>>

botVars == <<ready_count, cogs, bot_cog>>

sendVars == <<long_message>>

(***************************************************************************)
(* Bounds.                                                                  *)
(***************************************************************************)
MaxCmds == 3     \* command invocations and loop firings in one behaviour
MaxFires == 1    \* firings of the daily summary loop in one behaviour
MaxIndex == 3    \* largest event_index a remove is given (snapshots hold up to 2)
FirstDay == 1    \* first reference date (ordinal 1 is a Monday)
NumDays == 14    \* reference dates FirstDay .. FirstDay + NumDays - 1
MaxEvents == 3   \* SpecFetch: events the provider returns for one day
MaxReady == 2    \* SpecBot: on_ready events in one behaviour
MaxDays == 2     \* SpecBot: days FirstDay .. FirstDay + MaxDays - 1 pass
MAX_LENGTH == 3  \* SpecSend: MAX_LENGTH of send_long_message (2000 at line 6), scaled
MaxText == 4     \* SpecSend: longest text given to send_long_message

Requesters == {"u1", "u2"}

Tasks == 1..MaxCmds

(***************************************************************************)
(* Strings, as sequences of characters, with str.lower() and str.strip().   *)
(***************************************************************************)
Upper ==
    <<"A", "B", "C", "D", "E", "F", "G", "H", "I", "J", "K", "L", "M",
      "N", "O", "P", "Q", "R", "S", "T", "U", "V", "W", "X", "Y", "Z">>

LowerOf ==
    <<"a", "b", "c", "d", "e", "f", "g", "h", "i", "j", "k", "l", "m",
      "n", "o", "p", "q", "r", "s", "t", "u", "v", "w", "x", "y", "z">>

LowerChar(c) ==
    IF \E i \in 1..Len(Upper) : Upper[i] = c
    THEN LowerOf[CHOOSE i \in 1..Len(Upper) : Upper[i] = c]
    ELSE c

Lower(s) == [i \in 1..Len(s) |-> LowerChar(s[i])]

\* the whitespace str.strip() removes, of the characters tried
Whitespace == {" ", "\n", "\t"}

RECURSIVE LStrip(_)
LStrip(s) == IF s # <<>> /\ Head(s) \in Whitespace THEN LStrip(Tail(s)) ELSE s

RECURSIVE RStrip(_)
RStrip(s) ==
    IF s # <<>> /\ s[Len(s)] \in Whitespace THEN RStrip(SubSeq(s, 1, Len(s) - 1)) ELSE s

Strip(s) == RStrip(LStrip(s))

\* message texts are strings: str.startswith(prefix) and (sub in s)
StartsWith(s, prefix) == Len(prefix) <= Len(s) /\ SubSeq(s, 1, Len(prefix)) = prefix

Contains(s, sub) ==
    \E i \in 1..(Len(s) - Len(sub) + 1) : SubSeq(s, i, i + Len(sub) - 1) = sub

(***************************************************************************)
(* Dates are proleptic ordinals (datetime.date.toordinal()): ordinal 1 is   *)
(* a Monday, and date.weekday() counts Monday as 0.                         *)
(***************************************************************************)
Weekday(d) == (d + 6) % 7

weekdays ==
    << <<"m", "o", "n", "d", "a", "y">>,
       <<"t", "u", "e", "s", "d", "a", "y">>,
       <<"w", "e", "d", "n", "e", "s", "d", "a", "y">>,
       <<"t", "h", "u", "r", "s", "d", "a", "y">>,
       <<"f", "r", "i", "d", "a", "y">>,
       <<"s", "a", "t", "u", "r", "d", "a", "y">>,
       <<"s", "u", "n", "d", "a", "y">> >>

\* list.index(x): the 0-based position of x, or -1 where Python raises ValueError
IndexOf(list, x) ==
    IF \E i \in 1..Len(list) : list[i] = x
    THEN (CHOOSE i \in 1..Len(list) : list[i] = x) - 1
    ELSE 0 - 1

SomeDate(d) == [ok |-> TRUE, date |-> d]

None == [ok |-> FALSE, date |-> 0]

(***************************************************************************)
(* dateutil.parser.parse(day_str, default=today 00:00).date(), for the      *)
(* expressions of DayExprs.  dateutil splits on whitespace and looks tokens *)
(* up in lower case; a weekday name, full or abbreviated to three letters,  *)
(* is resolved as default + relativedelta(weekday=W): the first W on or     *)
(* after the default date, which is the default date itself when it falls   *)
(* on W.  "today", "tomorrow", "yesterday" and unknown words are no tokens  *)
(* of dateutil: ParserError, modelled as None.                              *)
(***************************************************************************)
DateutilWeekday(token) ==
    IF IndexOf(weekdays, token) >= 0
    THEN IndexOf(weekdays, token)
    ELSE IndexOf([i \in 1..Len(weekdays) |-> SubSeq(weekdays[i], 1, 3)], token)

DateutilParse(s, default) ==
    LET token == Strip(Lower(s))
        wd == DateutilWeekday(token)
    IN  IF wd >= 0
        THEN SomeDate(default + ((wd - Weekday(default) + 7) % 7))
        ELSE None

\* the weekday fallback of parse_relative_date (lines 294-304)
NextWeekday(day_str_lower, d) ==
    LET target_weekday == IndexOf(weekdays, day_str_lower)
        days_ahead == (target_weekday - Weekday(d) + 7) % 7
    IN  IF target_weekday < 0
        THEN None
        ELSE SomeDate(d + (IF days_ahead = 0 THEN 7 ELSE days_ahead))

\* parse_relative_date comparing day_str itself, without lower()
parse_relative_date_CaseSensitive(s, d) ==
    LET day_str_lower == Strip(s)
    IN  IF day_str_lower = <<"t", "o", "d", "a", "y">> THEN SomeDate(d)
        ELSE IF day_str_lower = <<"t", "o", "m", "o", "r", "r", "o", "w">> THEN SomeDate(d + 1)
        ELSE IF day_str_lower = <<"y", "e", "s", "t", "e", "r", "d", "a", "y">> THEN SomeDate(d - 1)
        ELSE LET parsed_dt == DateutilParse(s, d)
             IN  IF parsed_dt.ok THEN parsed_dt
                 ELSE NextWeekday(Lower(day_str_lower), d)

parse_relative_date(s, d) ==
    LET day_str_lower == Strip(Lower(s))
    IN  IF day_str_lower = <<"t", "o", "d", "a", "y">> THEN SomeDate(d)
        ELSE IF day_str_lower = <<"t", "o", "m", "o", "r", "r", "o", "w">> THEN SomeDate(d + 1)
        ELSE IF day_str_lower = <<"y", "e", "s", "t", "e", "r", "d", "a", "y">> THEN SomeDate(d - 1)
        ELSE LET parsed_dt == DateutilParse(s, d)
             IN  IF parsed_dt.ok THEN parsed_dt
                 ELSE NextWeekday(day_str_lower, d)

\* the day expressions tried
DayExprs ==
    { <<"t", "o", "d", "a", "y">>,
      <<"T", "O", "D", "A", "Y">>,
      <<"t", "o", "m", "o", "r", "r", "o", "w">>,
      <<"T", "o", "m", "o", "r", "r", "o", "w">>,
      <<"y", "e", "s", "t", "e", "r", "d", "a", "y">>,
      <<"Y", "e", "s", "t", "e", "r", "D", "a", "y">>,
      <<" ", "y", "e", "s", "t", "e", "r", "d", "a", "y", " ">>,
      <<"m", "o", "n", "d", "a", "y">>,
      <<"M", "o", "n", "d", "a", "y">>,
      <<"T", "U", "E", "S", "D", "A", "Y">>,
      <<"w", "e", "d", "n", "e", "s", "d", "a", "y">>,
      <<" ", "T", "h", "u", "r", "s", "d", "a", "y">>,
      <<"f", "r", "i", "d", "a", "y">>,
      <<"S", "a", "t", "u", "r", "D", "a", "y">>,
      <<"s", "u", "n", "d", "a", "y">>,
      <<"f", "r", "i">>,
      <<"s", "o", "m", "e", "d", "a", "y">> }

RefDates == FirstDay .. (FirstDay + NumDays - 1)

(***************************************************************************)
(* The calendar provider.  An event is a record of what events().list()     *)
(* returns for it: id, a timed or all-day start, an optional end (dur is    *)
(* end - start in minutes) and an optional summary ("" when absent).        *)
(***************************************************************************)
Holiday == [id |-> "ev2", timed |-> FALSE, start |-> 0, hasEnd |-> FALSE, dur |-> 0,
            title |-> "Holiday"]

Standup == [id |-> "ev1", timed |-> TRUE, start |-> 570, hasEnd |-> TRUE, dur |-> 60,
            title |-> "Standup"]

Untitled == [id |-> "ev3", timed |-> TRUE, start |-> 840, hasEnd |-> TRUE, dur |-> 0,
             title |-> ""]

NoEnd == [id |-> "ev4", timed |-> TRUE, start |-> 5, hasEnd |-> FALSE, dur |-> 0,
          title |-> "Call"]

Review == [id |-> "ev0", timed |-> TRUE, start |-> 570, hasEnd |-> TRUE, dur |-> 30,
           title |-> "Review"]

InitialCalendar(d) ==
    [x \in {d, d + 1} |-> IF x = d THEN <<Holiday, Standup>> ELSE <<Untitled>>]

\* events().list(timeMin, timeMax, orderBy='startTime').execute().get('items', [])
ListEvents(cal, d) == IF d \in DOMAIN cal THEN cal[d] ELSE <<>>

RECURSIVE Without(_, _)
Without(events, id) ==
    IF events = <<>> THEN <<>>
    ELSE IF Head(events).id = id THEN Without(Tail(events), id)
    ELSE <<Head(events)>> \o Without(Tail(events), id)

Holds(cal, id) == \E d \in DOMAIN cal : \E i \in 1..Len(cal[d]) : cal[d][i].id = id

\* events().delete(eventId=id).execute() on a calendar that holds id
DeleteEvent(cal, id) == [d \in DOMAIN cal |-> Without(cal[d], id)]

\* events().insert(body=event).execute(): the provider assigns the id
InsertEvent(cal, d, ev) ==
    [x \in DOMAIN cal \cup {d} |->
        IF x = d THEN ListEvents(cal, d) \o <<ev>> ELSE cal[x]]

(***************************************************************************)
(* get_events_for_day.  outcome is what the list call does: "ok",           *)
(* "HttpError" or "Exception".  The summary is kept as its first words      *)
(* (head), the date it names and its numbered lines.                        *)
(***************************************************************************)
TimeLabel(ev) ==
    IF ev.timed
    THEN IF ev.hasEnd /\ ev.dur > 0
         THEN <<"clock", ev.start, "min", ev.dur>>
         ELSE <<"clock", ev.start>>
    ELSE <<"All Day">>

EventTitle(ev) == IF ev.title = "" THEN "No Title" ELSE ev.title

Summary(head, d, lines) == [head |-> head, date |-> d, lines |-> lines]

\* SummaryLines with event_counter starting at 0
SummaryLinesFromZero(events) ==
    [i \in 1..Len(events) |-> <<i - 1, TimeLabel(events[i]), EventTitle(events[i])>>]

SummaryLines(events) ==
    [i \in 1..Len(events) |-> <<i, TimeLabel(events[i]), EventTitle(events[i])>>]

EventDetails(events) ==
    [i \in 1..Len(events) |-> <<events[i].id, TimeLabel(events[i]), EventTitle(events[i])>>]

\* str(error) of the HttpError and str(e) of the exception a provider call raises
HttpErrorText == "<HttpError 500 Backend Error>"

ExceptionText == "[Errno 104] Connection reset by peer"

get_events_for_day(service, target_date, cal, outcome) ==
    IF ~service
    THEN [summary |-> Summary("Error: Calendar service not available.", target_date, <<>>),
          details |-> <<>>]
    ELSE IF outcome = "HttpError"
    THEN [summary |-> Summary("Error: An HTTP error occurred while fetching the schedule: "
                                  \o HttpErrorText,
                              target_date, <<>>),
          details |-> <<>>]
    ELSE IF outcome = "Exception"
    THEN [summary |-> Summary("An unexpected error occurred while fetching the schedule: "
                                  \o ExceptionText,
                              target_date, <<>>),
          details |-> <<>>]
    ELSE LET events == ListEvents(cal, target_date)
         IN  IF events = <<>>
             THEN [summary |-> Summary("No events found for", target_date, <<>>),
                   details |-> <<>>]
             ELSE [summary |-> Summary("**Schedule for", target_date, SummaryLines(events)),
                   details |-> EventDetails(events)]

NoFetch == [summary |-> Summary("", 0, <<>>), details |-> <<>>]

(***************************************************************************)
(* The text of a summary: what "\n".join(summary_lines) and the f-strings   *)
(* of lines 174-203 produce (without the markdown code marks around an      *)
(* index).  A date is written as its weekday and ordinal.                   *)
(***************************************************************************)
WeekdayNames ==
    <<"Monday", "Tuesday", "Wednesday", "Thursday", "Friday", "Saturday", "Sunday">>

StrfDate(d) == WeekdayNames[Weekday(d) + 1] \o ", day " \o ToString(d)

Pad2(n) == IF n < 10 THEN "0" \o ToString(n) ELSE ToString(n)

\* strftime('%I:%M %p') of a minute of the day
ClockText(m) ==
    Pad2((((m \div 60) + 11) % 12) + 1) \o ":" \o Pad2(m % 60)
        \o (IF m < 720 THEN " AM" ELSE " PM")

\* time_str of lines 186-200
LabelText(label) ==
    IF label[1] = "All Day" THEN "All Day"
    ELSE IF Len(label) = 4
    THEN ClockText(label[2]) \o " (" \o ToString(label[4]) \o " min)"
    ELSE ClockText(label[2])

\* line 203
RenderLine(line) ==
    "[" \o ToString(line[1]) \o "] " \o LabelText(line[2]) \o ": " \o line[3]

RECURSIVE JoinLines(_)
JoinLines(lines) ==
    IF lines = <<>> THEN "" ELSE "\n" \o RenderLine(Head(lines)) \o JoinLines(Tail(lines))

Render(summary) ==
    IF summary.head = "No events found for"
    THEN summary.head \o " " \o StrfDate(summary.date) \o "."
    ELSE IF summary.head = "**Schedule for"
    THEN summary.head \o " " \o StrfDate(summary.date) \o ":**" \o JoinLines(summary.lines)
    ELSE summary.head

(***************************************************************************)
(* remove_calendar_event and add_calendar_event: the message returned.      *)
(* For a delete, outcome "ok" is the provider answering: success when it    *)
(* holds the event, HTTP 404 when it does not; "Gone" is HTTP 410, which it *)
(* may answer for an event it no longer holds; "HttpError" is any other     *)
(* HTTP status.                                                             *)
(***************************************************************************)
\* error.resp.status of the delete call; 204 is the answer without HttpError,
\* 0 stands for a call that ended without an HTTP answer
DeleteStatus(cal, event_id, outcome) ==
    IF outcome = "HttpError" THEN 500
    ELSE IF outcome = "Exception" THEN 0
    ELSE IF Holds(cal, event_id) THEN 204
    ELSE IF outcome = "Gone" THEN 410
    ELSE 404

\* remove_calendar_event with no benign case for 404 and 410
remove_calendar_event_NoBenign(service, cal, event_id, outcome) ==
    IF ~service THEN "Error: Calendar service not available."
    ELSE IF outcome = "Exception"
    THEN "An unexpected error occurred while removing the event: " \o ExceptionText
    ELSE IF DeleteStatus(cal, event_id, outcome) = 204
    THEN "Event removed successfully."
    ELSE "Error: An HTTP error occurred while removing the event: " \o HttpErrorText

remove_calendar_event(service, cal, event_id, outcome) ==
    IF ~service THEN "Error: Calendar service not available."
    ELSE IF outcome = "Exception"
    THEN "An unexpected error occurred while removing the event: " \o ExceptionText
    ELSE IF DeleteStatus(cal, event_id, outcome) = 204
    THEN "Event removed successfully."
    ELSE IF DeleteStatus(cal, event_id, outcome) \in {404, 410}
    THEN "Event not found. It might have been already deleted."
    ELSE "Error: An HTTP error occurred while removing the event: " \o HttpErrorText

add_calendar_event(service, outcome) ==
    IF ~service THEN "Error: Calendar service not available."
    ELSE IF outcome = "HttpError"
    THEN "Error: An HTTP error occurred while adding the event: " \o HttpErrorText
    ELSE IF outcome = "Exception"
    THEN "An unexpected error occurred while adding the event: " \o ExceptionText
    ELSE "Event added"

(***************************************************************************)
(* dateutil.parser.parse(time_str) in schedule_add, for the time strings    *)
(* tried: a clock time is taken on the current day; a string that is no     *)
(* date or time raises ParserError.                                         *)
(***************************************************************************)
TimeStrs == {"3pm", "soon"}

\* a parse that makes a time of any string
ParseTimeLenient(time_str, d) == [ok |-> TRUE, date |-> d, minute |-> 0]

ParseTime(time_str, d) ==
    IF time_str \in {"3pm"}
    THEN [ok |-> TRUE, date |-> d, minute |-> 900]
    ELSE [ok |-> FALSE, date |-> 0, minute |-> 0]

\* the day expressions the view command is given
ViewDayStrs ==
    { <<"t", "o", "d", "a", "y">>,
      <<"T", "o", "m", "o", "r", "r", "o", "w">>,
      <<"s", "o", "m", "e", "d", "a", "y">> }

(***************************************************************************)
(* The View State Cache: ScheduleCog.last_viewed_events, a dict.            *)
(***************************************************************************)
\* Put writing one list shared by every requester
PutShared(cache, author, events_details) ==
    [x \in DOMAIN cache \cup {author} |-> events_details]

\* Put extending the entry it finds
PutAppend(cache, author, events_details) ==
    [x \in DOMAIN cache \cup {author} |->
        IF x = author
        THEN (IF author \in DOMAIN cache THEN cache[author] ELSE <<>>) \o events_details
        ELSE cache[x]]

\* Put keeping the entry it finds
PutIfAbsent(cache, author, events_details) ==
    [x \in DOMAIN cache \cup {author} |->
        IF x = author /\ author \notin DOMAIN cache THEN events_details ELSE cache[x]]

\* self.last_viewed_events[author_id] = events_details
Put(cache, author, events_details) ==
    [x \in DOMAIN cache \cup {author} |->
        IF x = author THEN events_details ELSE cache[x]]

\* not self.last_viewed_events.get(author_id): no entry, or an empty list
NothingViewed(cache, author) == author \notin DOMAIN cache \/ cache[author] = <<>>

\* ValidIndex without the upper bound
ValidIndexNoUpperBound(user_last_events, event_index) ==
    LET target_index == event_index - 1
    IN  0 <= target_index

\* ValidIndex without the lower bound
ValidIndexNoLowerBound(user_last_events, event_index) ==
    LET target_index == event_index - 1
    IN  target_index < Len(user_last_events)

\* 0 <= target_index < len(user_last_events), with target_index = event_index - 1
ValidIndex(user_last_events, event_index) ==
    LET target_index == event_index - 1
    IN  0 <= target_index /\ target_index < Len(user_last_events)

\* list[k] in Python: positions count from 0, a negative k counts from the end,
\* and a k outside -len .. len - 1 raises IndexError
Indexable(list, k) == 0 - Len(list) <= k /\ k < Len(list)

PyIndex(list, k) == IF k >= 0 THEN list[k + 1] ELSE list[Len(list) + k + 1]

\* EventIdAt without the shift from display index to list position
EventIdAtUnshifted(user_last_events, event_index) ==
    IF Indexable(user_last_events, event_index)
    THEN PyIndex(user_last_events, event_index)[1]
    ELSE ""

\* event_id_to_remove, the first component of user_last_events[target_index]
EventIdAt(user_last_events, event_index) ==
    LET target_index == event_index - 1
    IN  PyIndex(user_last_events, target_index)[1]

(***************************************************************************)
(* Command invocations.  Each is a task of the event loop; it runs from one *)
(* await to the next without interleaving.  pc:                             *)
(*   "idle"      not issued                                                 *)
(*   "calling"   suspended: the progress message is sent and the provider   *)
(*               call is handed to the executor, not yet performed          *)
(*   "returned"  the executor thread has finished; the task is not resumed  *)
(*   "done"      the handler has returned                                   *)
(* Fields beyond the handler's locals record what happened: calls (the      *)
(* provider calls made for the task), out (the messages sent), had / snap   *)
(* (the cache entry a remove read), seen (the view whose write that entry  *)
(* was the requester's latest at that moment, 0 for none), wrote (the rank of the task's cache     *)
(* write among its requester's, 0 for none)  and during (the views of the   *)
(* same requester that were suspended on their fetch when it was issued)    *)
(* status (the HTTP status the provider answered a delete call with),       *)
(* threw (what the offloaded call raised, inside the helper or past it) and *)
(* reread (the id at the remove's index in its requester's cache entry at   *)
(* the moment its delete ran, "" when the entry had none there).            *)
(***************************************************************************)
NoTask ==
    [kind |-> "none", who |-> "", day_str |-> <<>>, time_str |-> "", event_index |-> 0,
     pc |-> "idle", target_date |-> 0, fetched |-> NoFetch, result |-> "",
     raised |-> FALSE, event_id_to_remove |-> "", had |-> FALSE, snap |-> <<>>,
     seen |-> 0, calls |-> <<>>, out |-> <<>>, wrote |-> 0, during |-> {},
     status |-> 0, threw |-> "", reread |-> ""]

Issued == {t \in Tasks : task[t].kind # "none"}

\* the next command to be issued, while the behaviour has room for one
NextTask(t) ==
    /\ t \notin Issued /\ \A s \in Tasks : s < t => s \in Issued
    /\ Cardinality(Issued) + loop.fires < MaxCmds

NewIds == <<"new1", "new2", "new3", "new4", "new5", "new6">>

Outcomes == {"ok", "HttpError", "Exception", "ExecutorError"}

\* a delete call may also be answered 410 Gone
DeleteOutcomes == Outcomes \cup {"Gone"}

Writes(author) == Cardinality({t \in Tasks : task[t].who = author /\ task[t].wrote > 0})

\* the view of author that wrote the cache most recently, 0 when none has
LastWriter(author) ==
    IF Writes(author) = 0 THEN 0
    ELSE CHOOSE v \in Tasks : task[v].who = author /\ task[v].wrote = Writes(author)

\* the service guard at the head of each helper (lines 147, 220, 253), and the
\* executor failing before the helper runs
ProviderCalled(service, outcome) == service /\ outcome # "ExecutorError"

Unavailable == "Error: Google Calendar connection is not available."

\* what an offloaded call raised: an HttpError or another exception inside the
\* helper (neither without a service, which makes no call), or an exception of
\* run_in_executor itself
Threw(service, outcome) ==
    IF outcome = "ExecutorError" \/ (service /\ outcome \in {"HttpError", "Exception"})
    THEN outcome ELSE ""

\* AfterCall making the call again when it failed
AfterCallRetrying(outcome) ==
    IF outcome \in {"HttpError", "Exception"} THEN "calling" ELSE "returned"

\* where a task is once its offloaded call has ended, whatever the outcome: the
\* await of run_in_executor completes and no handler makes the call again
AfterCall(outcome) == "returned"

\* the events of a list differ in their ids
DistinctEventIds(events) ==
    \A i \in 1..Len(events), j \in 1..Len(events) : events[i].id = events[j].id => i = j

\* ---- schedule_view ------------------------------------------------------
\* ViewBegin without the service guard of lines 138-140
ViewBeginUnguarded(t, author, s) ==
    LET target == parse_relative_date(s, today)
        base == [NoTask EXCEPT !.kind = "view", !.who = author, !.day_str = s]
    IN  IF ~target.ok
        THEN [base EXCEPT !.pc = "done", !.out = <<"Error: Could not understand the date">>]
        ELSE [base EXCEPT !.pc = "calling", !.target_date = target.date,
                          !.out = <<"Fetching schedule">>]

\* lines 137-147: up to the await of the offloaded fetch
ViewBegin(t, author, s) ==
    LET target == parse_relative_date(s, today)
        base == [NoTask EXCEPT !.kind = "view", !.who = author, !.day_str = s,
                    !.during = {v \in Tasks : /\ task[v].kind = "view"
                                              /\ task[v].who = author
                                              /\ task[v].pc \in {"calling", "returned"}}]
    IN  IF ~calendar_service
        THEN [base EXCEPT !.pc = "done", !.out = <<Unavailable>>]
        ELSE IF ~target.ok
        THEN [base EXCEPT !.pc = "done", !.out = <<"Error: Could not understand the date">>]
        ELSE [base EXCEPT !.pc = "calling", !.target_date = target.date,
                          !.out = <<"Fetching schedule">>]

ViewStart(t, author, s) ==
    /\ NextTask(t)
    /\ task' = [task EXCEPT ![t] = ViewBegin(t, author, s)]
    /\ UNCHANGED <<calendar_service, notify_configured, last_viewed_events, calendar,
                   loop, today, dateVars, fetchVars, botVars, sendVars>>

\* lines 151-153, in the executor thread: asyncio.run(get_events_for_day(...))
ViewFetch(t, outcome) ==
    /\ task[t].kind = "view" /\ task[t].pc = "calling"
    /\ task' = [task EXCEPT ![t] =
          IF outcome = "ExecutorError"
          THEN [@ EXCEPT !.pc = AfterCall(outcome), !.raised = TRUE,
                    !.threw = Threw(calendar_service, outcome)]
          ELSE [@ EXCEPT !.pc = AfterCall(outcome),
                    !.threw = Threw(calendar_service, outcome),
                    !.fetched = get_events_for_day(calendar_service, task[t].target_date,
                                                   calendar, outcome),
                    !.calls = IF ProviderCalled(calendar_service, outcome)
                              THEN Append(@, <<"list", task[t].target_date>>) ELSE @]]
    /\ UNCHANGED <<calendar_service, notify_configured, last_viewed_events, calendar,
                   loop, today, dateVars, fetchVars, botVars, sendVars>>

\* lines 154-160: the task resumes with the result, or with the exception
ViewEnd(t) ==
    IF task[t].raised
    THEN [task[t] EXCEPT !.pc = "done",
              !.out = Append(@, "Sorry, an error occurred while fetching the schedule.")]
    ELSE [task[t] EXCEPT !.pc = "done", !.wrote = Writes(task[t].who) + 1,
              !.out = Append(@, task[t].fetched.summary.head)]

ViewCache(t) ==
    IF task[t].raised
    THEN last_viewed_events
    ELSE Put(last_viewed_events, task[t].who, task[t].fetched.details)

ViewResume(t) ==
    /\ task[t].kind = "view" /\ task[t].pc = "returned"
    /\ last_viewed_events' = ViewCache(t)
    /\ task' = [task EXCEPT ![t] = ViewEnd(t)]
    /\ UNCHANGED <<calendar_service, notify_configured, calendar, loop, today, dateVars, fetchVars, botVars, sendVars>>

\* ---- schedule_add -------------------------------------------------------
\* lines 165-180 and 194-196: up to the await of the offloaded insert
AddBegin(t, author, s) ==
    LET start_dt == ParseTime(s, today)
        base == [NoTask EXCEPT !.kind = "add", !.who = author, !.time_str = s]
    IN  IF ~calendar_service
        THEN [base EXCEPT !.pc = "done", !.out = <<Unavailable>>]
        ELSE IF ~start_dt.ok
        THEN [base EXCEPT !.pc = "done", !.out = <<"Error: Could not understand the time">>]
        ELSE [base EXCEPT !.pc = "calling", !.target_date = start_dt.date,
                          !.out = <<"Adding event">>]

AddStart(t, author, s) ==
    /\ NextTask(t)
    /\ task' = [task EXCEPT ![t] = AddBegin(t, author, s)]
    /\ UNCHANGED <<calendar_service, notify_configured, last_viewed_events, calendar,
                   loop, today, dateVars, fetchVars, botVars, sendVars>>

NewEvent(t) ==
    [id |-> NewIds[t], timed |-> TRUE, start |-> ParseTime(task[t].time_str, today).minute,
     hasEnd |-> TRUE, dur |-> 60, title |-> "Meeting"]

\* lines 184-186, in the executor thread: asyncio.run(add_calendar_event(...))
AddInsert(t, outcome) ==
    /\ task[t].kind = "add" /\ task[t].pc = "calling"
    /\ task' = [task EXCEPT ![t] =
          IF outcome = "ExecutorError"
          THEN [@ EXCEPT !.pc = AfterCall(outcome), !.raised = TRUE,
                    !.threw = Threw(calendar_service, outcome)]
          ELSE [@ EXCEPT !.pc = AfterCall(outcome),
                    !.threw = Threw(calendar_service, outcome),
                    !.result = add_calendar_event(calendar_service, outcome),
                    !.calls = IF ProviderCalled(calendar_service, outcome)
                              THEN Append(@, <<"insert", NewIds[t]>>) ELSE @]]
    /\ calendar' = IF ProviderCalled(calendar_service, outcome) /\ outcome = "ok"
                   THEN InsertEvent(calendar, task[t].target_date, NewEvent(t))
                   ELSE calendar
    /\ UNCHANGED <<calendar_service, notify_configured, last_viewed_events, loop, today,
                   dateVars, fetchVars, botVars, sendVars>>

\* lines 187-192
AddResume(t) ==
    /\ task[t].kind = "add" /\ task[t].pc = "returned"
    /\ task' = [task EXCEPT ![t] =
          [@ EXCEPT !.pc = "done",
               !.out = Append(@, IF task[t].raised
                                 THEN "Sorry, an error occurred while adding the event."
                                 ELSE task[t].result)]]
    /\ UNCHANGED <<calendar_service, notify_configured, last_viewed_events, calendar,
                   loop, today, dateVars, fetchVars, botVars, sendVars>>

\* ---- schedule_remove ----------------------------------------------------
\* line 237 (without the markdown code marks)
InvalidId(event_index) ==
    "Error: Invalid ID '" \o ToString(event_index)
        \o "'. Please use !schedule view and provide a valid number from the list."

\* the event_index values tried: the converter yields any int
IndexArgs == (0 - 1)..MaxIndex

\* lines 207-223 and 236-243: up to the await of the offloaded delete
RemoveBegin(t, author, event_index) ==
    LET base == [NoTask EXCEPT !.kind = "remove", !.who = author,
                               !.event_index = event_index]
        read == [base EXCEPT !.had = author \in DOMAIN last_viewed_events,
                             !.seen = LastWriter(author),
                             !.snap = IF author \in DOMAIN last_viewed_events
                                      THEN last_viewed_events[author] ELSE <<>>]
    IN  IF ~calendar_service
        THEN [base EXCEPT !.pc = "done", !.out = <<Unavailable>>]
        ELSE IF NothingViewed(last_viewed_events, author)
        THEN [read EXCEPT !.pc = "done", !.out = <<"Please use !schedule view first">>]
        ELSE IF ~ValidIndex(last_viewed_events[author], event_index)
        THEN [read EXCEPT !.pc = "done", !.out = <<InvalidId(event_index)>>]
        ELSE IF ~Indexable(last_viewed_events[author], event_index - 1)
        THEN [read EXCEPT !.pc = "done",   \* IndexError, caught at lines 241-243
                  !.out = <<"An unexpected error occurred while removing the event.">>]
        ELSE [read EXCEPT !.pc = "calling",
                  !.event_id_to_remove = EventIdAt(last_viewed_events[author], event_index),
                  !.out = <<"Attempting to remove event">>]

RemoveStart(t, author, event_index) ==
    /\ NextTask(t)
    /\ task' = [task EXCEPT ![t] = RemoveBegin(t, author, event_index)]
    /\ UNCHANGED <<calendar_service, notify_configured, last_viewed_events, calendar,
                   loop, today, dateVars, fetchVars, botVars, sendVars>>

\* the id at position event_index of author's entry as the cache is now
CachedIdAt(cache, author, event_index) ==
    IF ~NothingViewed(cache, author) /\ ValidIndex(cache[author], event_index)
    THEN EventIdAt(cache[author], event_index)
    ELSE ""

\* DeletedId reading the cache again when the delete runs
DeletedIdReread(t) == CachedIdAt(last_viewed_events, task[t].who, task[t].event_index)

\* line 228: the lambda passes event_id_to_remove, the handler's local bound at
\* line 221
DeletedId(t) == task[t].event_id_to_remove

\* lines 227-229, in the executor thread: asyncio.run(remove_calendar_event(...))
RemoveDelete(t, outcome) ==
    /\ task[t].kind = "remove" /\ task[t].pc = "calling"
    /\ outcome = "Gone" => calendar_service /\ ~Holds(calendar, DeletedId(t))
    /\ task' = [task EXCEPT ![t] =
          IF outcome = "ExecutorError"
          THEN [@ EXCEPT !.pc = AfterCall(outcome), !.raised = TRUE,
                    !.threw = Threw(calendar_service, outcome)]
          ELSE [@ EXCEPT !.pc = AfterCall(outcome),
                    !.threw = Threw(calendar_service, outcome),
                    !.result = remove_calendar_event(calendar_service, calendar,
                                                     DeletedId(t), outcome),
                    !.status = IF ProviderCalled(calendar_service, outcome)
                               THEN DeleteStatus(calendar, DeletedId(t), outcome)
                               ELSE 0,
                    !.reread = CachedIdAt(last_viewed_events, task[t].who,
                                          task[t].event_index),
                    !.calls = IF ProviderCalled(calendar_service, outcome)
                              THEN Append(@, <<"delete", DeletedId(t)>>)
                              ELSE @]]
    /\ calendar' = IF ProviderCalled(calendar_service, outcome) /\ outcome = "ok"
                   THEN DeleteEvent(calendar, DeletedId(t))
                   ELSE calendar
    /\ UNCHANGED <<calendar_service, notify_configured, last_viewed_events, loop, today,
                   dateVars, fetchVars, botVars, sendVars>>

\* lines 230-235
RemoveEnd(t) ==
    [task[t] EXCEPT !.pc = "done",
         !.out = Append(@, IF task[t].raised
                           THEN "Sorry, an error occurred while removing the event."
                           ELSE task[t].result)]

\* a remove that drops the record it deleted from the requester's entry
RemoveCacheInvalidating(t) ==
    IF task[t].raised \/ task[t].result # "Event removed successfully."
    THEN last_viewed_events
    ELSE [x \in DOMAIN last_viewed_events |->
            IF x = task[t].who
            THEN SelectSeq(last_viewed_events[x],
                           LAMBDA r : r[1] # task[t].event_id_to_remove)
            ELSE last_viewed_events[x]]

\* lines 213-243 assign nothing to self.last_viewed_events
RemoveCache(t) == last_viewed_events

RemoveResume(t) ==
    /\ task[t].kind = "remove" /\ task[t].pc = "returned"
    /\ last_viewed_events' = RemoveCache(t)
    /\ task' = [task EXCEPT ![t] = RemoveEnd(t)]
    /\ UNCHANGED <<calendar_service, notify_configured, calendar, loop, today, dateVars, fetchVars, botVars, sendVars>>

(***************************************************************************)
(* daily_schedule_summary, the tasks.loop body, and get_notify_channel.     *)
(* loop.state:                                                              *)
(*   "stopped"   the loop was not started by __init__                       *)
(*   "waiting"   between firings                                            *)
(*   "channel"   firing, suspended in get_notify_channel                    *)
(*   "calling"   firing, fetch handed to the executor                       *)
(*   "returned"  firing, the executor thread has finished                   *)
(***************************************************************************)
NoLoop ==
    [state |-> "stopped", fires |-> 0, fired_on |-> 0, again |-> FALSE, today |-> 0,
     fetched |-> NoFetch, raised |-> FALSE, calls |-> <<>>, sent |-> <<>>]

\* __init__, lines 29-31
StartedLoop(service, configured) ==
    IF service /\ configured THEN [NoLoop EXCEPT !.state = "waiting"] ELSE NoLoop

\* IsError looking for "Error:" alone
IsErrorByFirstPrefix(summary) == StartsWith(summary.head, "Error:")

\* line 98: the two prefixes that mark a failed fetch
IsError(summary) ==
    StartsWith(summary.head, "Error:") \/ StartsWith(summary.head, "An unexpected error")

\* DailyMessage forwarding the summary it was given, whatever it says
DailyMessageRaw(summary_text, d) ==
    [head |-> summary_text.head, date |-> summary_text.date,
     lines |-> summary_text.lines, quoted |-> ""]

\* lines 98-105: the message built from summary_text
DailyMessage(summary_text, d) ==
    IF IsError(summary_text)
    THEN [head |-> "Could not fetch daily schedule summary. Error: ", date |-> d,
          lines |-> <<>>, quoted |-> summary_text.head]
    ELSE IF StartsWith(summary_text.head, "No events found")
    THEN [head |-> "Good morning! No events scheduled for today", date |-> d,
          lines |-> <<>>, quoted |-> ""]
    ELSE [head |-> IF summary_text.date = d
                   THEN "**Schedule for Today" ELSE summary_text.head,
          date |-> summary_text.date, lines |-> summary_text.lines, quoted |-> ""]

\* the text of the message handed to send_long_message (lines 99-105)
RenderDaily(message) ==
    IF message.quoted # "" THEN message.head \o message.quoted
    ELSE IF message.head = "Good morning! No events scheduled for today"
    THEN message.head \o " (" \o StrfDate(message.date) \o ")."
    ELSE IF message.head = "**Schedule for Today"
    THEN message.head \o " (" \o StrfDate(message.date) \o "):**"
             \o JoinLines(message.lines)
    ELSE Render([head |-> message.head, date |-> message.date, lines |-> message.lines])

(***************************************************************************)
(* One firing of a loop l, step by step.  today, fetched and raised are the *)
(* locals of the body, gone when it returns.  calls and sent are those of   *)
(* the latest firing; fired_on is the date it began on, and again tells     *)
(* that it was not the loop's first.                                        *)
(***************************************************************************)
\* the body returns: the loop waits for its next time
Returned(l) ==
    [l EXCEPT !.state = "waiting", !.today = 0, !.fetched = NoFetch, !.raised = FALSE]

\* lines 74-82: the body starts; without a service it returns at once
Fired(l, service, d) ==
    LET began == [l EXCEPT !.fired_on = d, !.again = (l.fired_on # 0),
                           !.calls = <<>>, !.sent = <<>>]
    IN  IF ~service THEN began ELSE [began EXCEPT !.state = "channel"]

\* Channeled ending the loop when the channel is not found
ChanneledStopping(l, found, d) ==
    IF found THEN [l EXCEPT !.state = "calling", !.today = d]
    ELSE [l EXCEPT !.state = "stopped"]

\* lines 82-89: get_notify_channel returns the channel, or None on any failure
Channeled(l, found, d) ==
    IF found THEN [l EXCEPT !.state = "calling", !.today = d]
    ELSE Returned(l)

\* lines 91-96, in the executor thread
Fetched(l, service, cal, outcome) ==
    IF outcome = "ExecutorError"
    THEN [l EXCEPT !.state = AfterCall(outcome), !.raised = TRUE]
    ELSE [l EXCEPT !.state = AfterCall(outcome),
             !.fetched = get_events_for_day(service, l.today, cal, outcome),
             !.calls = IF ProviderCalled(service, outcome)
                       THEN Append(@, <<"list", l.today>>) ELSE @]

\* what the body holds in summary_text at line 98
SummaryText(l) ==
    IF l.raised
    THEN Summary("Error: Failed to fetch schedule details.", l.today, <<>>)
    ELSE l.fetched.summary

\* lines 98-113: the message is built and handed to send_long_message once; the
\* send may fail
Delivered(l, delivered) ==
    [Returned(l) EXCEPT
        !.sent = IF delivered THEN Append(@, DailyMessage(SummaryText(l), l.today)) ELSE @]

LoopFire ==
    /\ loop.state = "waiting" /\ loop.fires < MaxFires
    /\ Cardinality(Issued) + loop.fires < MaxCmds
    /\ loop' = [Fired(loop, calendar_service, today) EXCEPT !.fires = @ + 1]
    /\ UNCHANGED <<calendar_service, notify_configured, last_viewed_events, calendar,
                   task, today, dateVars, fetchVars, botVars, sendVars>>

LoopChannel(found) ==
    /\ loop.state = "channel"
    /\ loop' = Channeled(loop, found, today)
    /\ UNCHANGED <<calendar_service, notify_configured, last_viewed_events, calendar,
                   task, today, dateVars, fetchVars, botVars, sendVars>>

LoopFetch(outcome) ==
    /\ loop.state = "calling"
    /\ loop' = Fetched(loop, calendar_service, calendar, outcome)
    /\ UNCHANGED <<calendar_service, notify_configured, last_viewed_events, calendar,
                   task, today, dateVars, fetchVars, botVars, sendVars>>

LoopDeliver(delivered) ==
    /\ loop.state = "returned"
    /\ loop' = Delivered(loop, delivered)
    /\ UNCHANGED <<calendar_service, notify_configured, last_viewed_events, calendar,
                   task, today, dateVars, fetchVars, botVars, sendVars>>

(***************************************************************************)
(* send_long_message(ctx, text, prefix).  text and prefix are sequences of  *)
(* characters; positions count from 0 as in the source.  A call m:          *)
(*   text, prefix, current_pos, first_message   the arguments and locals    *)
(*   pc          "off" no call, "loop" at the while test, "done" returned   *)
(*   sent        the arguments of ctx.send so far, in order                 *)
(*   iterations  the loop bodies run so far                                 *)
(* ctx.send is taken to complete.                                           *)
(***************************************************************************)
NoMessage ==
    [text |-> <<>>, prefix |-> <<>>, current_pos |-> 0, first_message |-> TRUE,
     pc |-> "off", sent |-> <<>>, iterations |-> 0]

Min(a, b) == IF a <= b THEN a ELSE b

\* s[a:b] for 0 <= a: the characters at positions a .. b - 1 that s has
Slice(s, a, b) == SubSeq(s, a + 1, Min(b, Len(s)))

\* s.rfind(ch, start, end): the highest position in start .. end - 1 holding ch,
\* -1 when there is none
RFind(s, ch, start, end) ==
    LET hits == {i \in start..(Min(end, Len(s)) - 1) : s[i + 1] = ch}
    IN  IF hits = {} THEN 0 - 1 ELSE CHOOSE i \in hits : \A j \in hits : j <= i

\* line 11
MessagePrefix(m) == IF m.first_message THEN m.prefix ELSE <<>>

\* EndPos without the clamp of line 18
EndPosUnclamped(m) == m.current_pos + (MAX_LENGTH - Len(MessagePrefix(m)))

\* lines 13-18
EndPos(m) ==
    LET remaining_space == MAX_LENGTH - Len(MessagePrefix(m))
    IN  Min(m.current_pos + remaining_space, Len(m.text))

\* lines 21-25: the last newline of the window, else its last space, else its end
SplitPos(m) ==
    LET at_newline == RFind(m.text, "\n", m.current_pos, EndPos(m))
        at_space == RFind(m.text, " ", m.current_pos, EndPos(m))
    IN  IF ~(at_newline = 0 - 1 \/ at_newline <= m.current_pos) THEN at_newline
        ELSE IF ~(at_space = 0 - 1 \/ at_space <= m.current_pos) THEN at_space
        ELSE EndPos(m)

\* line 28
Stripped(m) == Strip(Slice(m.text, m.current_pos, SplitPos(m)))

\* lines 28-30
Chunk(m) ==
    IF Stripped(m) = <<>> THEN Slice(m.text, m.current_pos, EndPos(m)) ELSE Stripped(m)

\* line 37
NextPos(m) == IF Chunk(m) = Stripped(m) THEN SplitPos(m) ELSE EndPos(m)

\* lines 11-39: one run of the loop body
Iterated(m) ==
    [m EXCEPT !.sent = IF Chunk(m) # <<>> THEN Append(@, MessagePrefix(m) \o Chunk(m))
                       ELSE @,
              !.current_pos = NextPos(m),
              !.first_message = FALSE,
              !.iterations = @ + 1]

(***************************************************************************)
(* Spec: the cog after ScheduleCog.__init__(bot, calendar_service), for a   *)
(* calendar_service that is a client or None (every handler guards for      *)
(* None), and a notify channel and summary time that are configured or not. *)
(* Sending a message (ctx.send, send_long_message in a command) is taken to *)
(* succeed.  parser.parse in schedule_add either returns or raises          *)
(* ParserError; the handlers for ValueError and Exception at lines 197-202  *)
(* are not reached by the time strings tried.                               *)
(***************************************************************************)
Init ==
    /\ calendar_service \in BOOLEAN
    /\ notify_configured \in BOOLEAN
    /\ last_viewed_events = [x \in {} |-> <<>>]
    /\ calendar = InitialCalendar(FirstDay)
    /\ task = [t \in Tasks |-> NoTask]
    /\ loop = StartedLoop(calendar_service, notify_configured)
    /\ today = FirstDay
    /\ day_str = <<>>
    /\ resolved = None
    /\ dpc = "off"
    /\ list_outcome = "ok"
    /\ got = NoFetch
    /\ fpc = "off"
    /\ ready_count = 0
    /\ cogs = <<>>
    /\ bot_cog = 0
    /\ long_message = NoMessage

Next ==
    \/ \E t \in Tasks, author \in Requesters, s \in ViewDayStrs : ViewStart(t, author, s)
    \/ \E t \in Tasks, outcome \in Outcomes : ViewFetch(t, outcome)
    \/ \E t \in Tasks : ViewResume(t)
    \/ \E t \in Tasks, author \in Requesters, s \in TimeStrs : AddStart(t, author, s)
    \/ \E t \in Tasks, outcome \in Outcomes : AddInsert(t, outcome)
    \/ \E t \in Tasks : AddResume(t)
    \/ \E t \in Tasks, author \in Requesters, i \in IndexArgs : RemoveStart(t, author, i)
    \/ \E t \in Tasks, outcome \in DeleteOutcomes : RemoveDelete(t, outcome)
    \/ \E t \in Tasks : RemoveResume(t)
    \/ LoopFire
    \/ \E found \in BOOLEAN : LoopChannel(found)
    \/ \E outcome \in Outcomes : LoopFetch(outcome)
    \/ \E delivered \in BOOLEAN : LoopDeliver(delivered)

Spec == Init /\ [][Next]_vars

(***************************************************************************)
(* SpecDate: parse_relative_date(day_str) with date.today() = today.        *)
(***************************************************************************)
InitDate ==
    /\ day_str \in DayExprs
    /\ today \in RefDates
    /\ resolved = None
    /\ dpc = "input"
    /\ calendar_service = FALSE
    /\ notify_configured = FALSE
    /\ last_viewed_events = [x \in {} |-> <<>>]
    /\ calendar = InitialCalendar(FirstDay)
    /\ task = [t \in Tasks |-> NoTask]
    /\ loop = NoLoop
    /\ list_outcome = "ok"
    /\ got = NoFetch
    /\ fpc = "off"
    /\ ready_count = 0
    /\ cogs = <<>>
    /\ bot_cog = 0
    /\ long_message = NoMessage

Resolve ==
    /\ dpc = "input"
    /\ resolved' = parse_relative_date(day_str, today)
    /\ dpc' = "returned"
    /\ UNCHANGED <<cogVars, today, day_str, fetchVars, botVars, sendVars>>

NextDate == Resolve

SpecDate == InitDate /\ [][NextDate]_vars

(***************************************************************************)
(* SpecFetch: get_events_for_day(service, today) for a provider whose list  *)
(* call returns up to MaxEvents events of the day, in any order, or fails.  *)
(***************************************************************************)
ProviderEvents == {Holiday, Standup, Untitled, NoEnd, Review}

RECURSIVE ItemLists(_)
ItemLists(n) ==
    IF n = 0 THEN {<<>>}
    ELSE ItemLists(n - 1) \cup
         {Append(l, ev) : l \in {x \in ItemLists(n - 1) : Len(x) = n - 1},
                          ev \in ProviderEvents}

\* orderBy='startTime': the items come in start order, each event once
SortedByStart(events) ==
    \A i \in 1..Len(events), j \in 1..Len(events) :
        i < j => events[i].start <= events[j].start

ProviderLists ==
    {l \in ItemLists(MaxEvents) : DistinctEventIds(l) /\ SortedByStart(l)}

ListOutcomes == {"ok", "HttpError", "Exception"}

InitFetch ==
    /\ calendar_service \in BOOLEAN
    /\ today = FirstDay
    /\ calendar \in {[x \in {FirstDay} |-> l] : l \in ProviderLists}
    /\ list_outcome \in ListOutcomes
    /\ got = NoFetch
    /\ fpc = "input"
    /\ notify_configured = FALSE
    /\ last_viewed_events = [x \in {} |-> <<>>]
    /\ task = [t \in Tasks |-> NoTask]
    /\ loop = NoLoop
    /\ day_str = <<>>
    /\ resolved = None
    /\ dpc = "off"
    /\ ready_count = 0
    /\ cogs = <<>>
    /\ bot_cog = 0
    /\ long_message = NoMessage

Fetch ==
    /\ fpc = "input"
    /\ got' = get_events_for_day(calendar_service, today, calendar, list_outcome)
    /\ fpc' = "returned"
    /\ UNCHANGED <<cogVars, today, dateVars, list_outcome, botVars, sendVars>>

NextFetch == Fetch

SpecFetch == InitFetch /\ [][NextFetch]_vars

(***************************************************************************)
(* SpecBot: the bot of discord_bot.py.  Each on_ready event builds the      *)
(* calendar service again and calls setup, which constructs a ScheduleCog   *)
(* (starting its daily loop) and hands it to bot.add_cog.  Days pass; a     *)
(* started loop fires once on a day, at the configured time.                *)
(* calendar_service is here the module global of discord_bot.py.            *)
(***************************************************************************)
Days == FirstDay .. (FirstDay + MaxDays - 1)

Instances == 1..Len(cogs)

NewCog(service, configured) ==
    [service |-> service, loop |-> StartedLoop(service, configured)]

InitBot ==
    /\ calendar_service = FALSE
    /\ notify_configured \in BOOLEAN
    /\ today = FirstDay
    /\ calendar = InitialCalendar(FirstDay)
    /\ ready_count = 0
    /\ cogs = <<>>
    /\ bot_cog = 0
    /\ long_message = NoMessage
    /\ last_viewed_events = [x \in {} |-> <<>>]
    /\ task = [t \in Tasks |-> NoTask]
    /\ loop = NoLoop
    /\ day_str = <<>>
    /\ resolved = None
    /\ dpc = "off"
    /\ list_outcome = "ok"
    /\ got = NoFetch
    /\ fpc = "off"

\* on_ready, lines 45-89, with setup (schedule_cog.py lines 246-253): service is
\* what get_calendar_service returned (FALSE for None, or when the call raised).
\* setup returns at once without a service; otherwise ScheduleCog(...) is
\* constructed and then add_cog either takes it or, when the bot already holds
\* a cog of that name, raises (caught at line 86) and leaves the held one.
OnReady(service) ==
    /\ ready_count < MaxReady
    /\ ready_count' = ready_count + 1
    /\ calendar_service' = service
    /\ cogs' = IF service THEN Append(cogs, NewCog(service, notify_configured)) ELSE cogs
    /\ bot_cog' = IF service /\ bot_cog = 0 THEN Len(cogs) + 1 ELSE bot_cog
    /\ UNCHANGED <<notify_configured, last_viewed_events, calendar, task, loop, today,
                   dateVars, fetchVars, sendVars>>

\* midnight
Tick ==
    /\ today + 1 \in Days
    /\ today' = today + 1
    /\ UNCHANGED <<cogVars, dateVars, fetchVars, botVars, sendVars>>

\* the steps of the loop of instance i
CogFire(i) ==
    /\ i \in Instances
    /\ cogs[i].loop.state = "waiting" /\ cogs[i].loop.fired_on < today
    /\ cogs' = [cogs EXCEPT ![i].loop = Fired(@, cogs[i].service, today)]
    /\ UNCHANGED <<cogVars, today, dateVars, fetchVars, ready_count, bot_cog, sendVars>>

CogChannel(i, found) ==
    /\ i \in Instances
    /\ cogs[i].loop.state = "channel"
    /\ cogs' = [cogs EXCEPT ![i].loop = Channeled(@, found, today)]
    /\ UNCHANGED <<cogVars, today, dateVars, fetchVars, ready_count, bot_cog, sendVars>>

CogFetch(i, outcome) ==
    /\ i \in Instances
    /\ cogs[i].loop.state = "calling"
    /\ cogs' = [cogs EXCEPT ![i].loop = Fetched(@, cogs[i].service, calendar, outcome)]
    /\ UNCHANGED <<cogVars, today, dateVars, fetchVars, ready_count, bot_cog, sendVars>>

CogDeliver(i, delivered) ==
    /\ i \in Instances
    /\ cogs[i].loop.state = "returned"
    /\ cogs' = [cogs EXCEPT ![i].loop = Delivered(@, delivered)]
    /\ UNCHANGED <<cogVars, today, dateVars, fetchVars, ready_count, bot_cog, sendVars>>

NextBot ==
    \/ \E service \in BOOLEAN : OnReady(service)
    \/ Tick
    \/ \E i \in 1..MaxReady : CogFire(i)
    \/ \E i \in 1..MaxReady, found \in BOOLEAN : CogChannel(i, found)
    \/ \E i \in 1..MaxReady, outcome \in Outcomes : CogFetch(i, outcome)
    \/ \E i \in 1..MaxReady, delivered \in BOOLEAN : CogDeliver(i, delivered)

SpecBot == InitBot /\ [][NextBot]_vars

\* SpecBot with the scheduling of the event loop: a firing that is suspended on
\* its channel lookup, its offloaded fetch or its send is resumed.
FairSpecBot ==
    /\ SpecBot
    /\ \A i \in 1..MaxReady :
          /\ WF_vars(\E found \in BOOLEAN : CogChannel(i, found))
          /\ WF_vars(\E outcome \in Outcomes : CogFetch(i, outcome))
          /\ WF_vars(\E delivered \in BOOLEAN : CogDeliver(i, delivered))

(***************************************************************************)
(* SpecSend: one call send_long_message(ctx, text, prefix), for every text  *)
(* of up to MaxText characters over a letter, the space and the newline,    *)
(* and every prefix shorter than MAX_LENGTH.                                *)
(***************************************************************************)
Chars == {"a", " ", "\n"}

Texts == UNION {[1..n -> Chars] : n \in 0..MaxText}

Prefixes == {[i \in 1..n |-> "p"] : n \in 0..(MAX_LENGTH - 1)}

InitSend ==
    /\ long_message \in {[NoMessage EXCEPT !.text = t, !.prefix = p, !.pc = "loop"] :
                            t \in Texts, p \in Prefixes}
    /\ calendar_service = FALSE
    /\ notify_configured = FALSE
    /\ today = FirstDay
    /\ calendar = InitialCalendar(FirstDay)
    /\ last_viewed_events = [x \in {} |-> <<>>]
    /\ task = [t \in Tasks |-> NoTask]
    /\ loop = NoLoop
    /\ day_str = <<>>
    /\ resolved = None
    /\ dpc = "off"
    /\ list_outcome = "ok"
    /\ got = NoFetch
    /\ fpc = "off"
    /\ ready_count = 0
    /\ cogs = <<>>
    /\ bot_cog = 0

\* line 10 true, lines 11-39
SendChunk ==
    /\ long_message.pc = "loop"
    /\ long_message.current_pos < Len(long_message.text)
    /\ long_message' = Iterated(long_message)
    /\ UNCHANGED <<cogVars, today, dateVars, fetchVars, botVars>>

\* line 10 false: the function returns
SendReturn ==
    /\ long_message.pc = "loop"
    /\ ~(long_message.current_pos < Len(long_message.text))
    /\ long_message' = [long_message EXCEPT !.pc = "done"]
    /\ UNCHANGED <<cogVars, today, dateVars, fetchVars, botVars>>

NextSend == SendChunk \/ SendReturn

SpecSend == InitSend /\ [][NextSend]_vars

\* a coroutine that can run is run: the awaited ctx.send completes and the
\* event loop resumes the call
FairSpecSend == SpecSend /\ WF_vars(SendChunk) /\ WF_vars(SendReturn)

(***************************************************************************)
(* Properties.                                                              *)
(***************************************************************************)
Views == {t \in Tasks : task[t].kind = "view"}

Adds == {t \in Tasks : task[t].kind = "add"}

Removes == {t \in Tasks : task[t].kind = "remove"}

Ids(records) == {records[i][1] : i \in 1..Len(records)}

DistinctIds(records) == Cardinality(Ids(records)) = Len(records)

InRange(event_index, records) == 1 <= event_index /\ event_index <= Len(records)

\* C1: every delete call a remove makes is for the id stored at position
\* displayIndex (counted from 1) of the snapshot the remove read from its
\* requester's cache entry, with displayIndex in 1..N; the remove makes no other
\* call, a remove with a valid index of a non-empty snapshot is not rejected, and
\* two removes of one snapshot with distinct ids and distinct indices delete
\* distinct ids.
RemoveDeletesIndexedRecord ==
    /\ \A t \in Removes :
          /\ \A i \in 1..Len(task[t].calls) :
                /\ task[t].calls[i][1] = "delete"
                /\ InRange(task[t].event_index, task[t].snap)
                /\ task[t].calls[i][2] = task[t].snap[task[t].event_index][1]
          /\ Len(task[t].calls) <= 1
          /\ InRange(task[t].event_index, task[t].snap) =>
                /\ task[t].event_id_to_remove = task[t].snap[task[t].event_index][1]
                /\ task[t].pc = "done" => task[t].calls # <<>> \/ task[t].raised
    /\ \A t1 \in Removes, t2 \in Removes :
          /\ task[t1].snap = task[t2].snap /\ DistinctIds(task[t1].snap)
          /\ task[t1].event_index # task[t2].event_index
          /\ task[t1].calls # <<>> /\ task[t2].calls # <<>>
          => task[t1].calls[1][2] # task[t2].calls[1][2]

\* C1 witness: two removes of one two-record snapshot, indices 1 and 2, have each
\* made their delete call.
TwoRemovesOfOneSnapshot ==
    \E t1 \in Removes, t2 \in Removes :
        /\ task[t1].snap = task[t2].snap /\ Len(task[t1].snap) = 2
        /\ task[t1].event_index = 1 /\ task[t2].event_index = 2
        /\ task[t1].calls # <<>> /\ task[t2].calls # <<>>

\* C2: a remove makes a provider call only if its requester had a cache entry when
\* the remove read the cache and 1 <= displayIndex <= len(entry); the call is a
\* delete, never a list (no fallback fetch).
DeleteOnlyForCachedValidIndex ==
    \A t \in Removes :
        /\ task[t].calls # <<>> =>
              task[t].had /\ InRange(task[t].event_index, task[t].snap)
        /\ \A i \in 1..Len(task[t].calls) : task[t].calls[i][1] = "delete"
        /\ (~task[t].had \/ ~InRange(task[t].event_index, task[t].snap)) =>
              task[t].pc = "done" /\ task[t].event_id_to_remove = ""

\* C2 witness: with the service available, one remove was rejected for want of a
\* view and another for an index outside a non-empty snapshot (0 or len + 1).
RemovesRejected ==
    /\ calendar_service
    /\ \E t1 \in Removes, t2 \in Removes :
        /\ ~task[t1].had /\ task[t1].event_index = 1 /\ task[t1].calls = <<>>
        /\ task[t2].had /\ task[t2].snap # <<>> /\ task[t2].calls = <<>>
        /\ task[t2].event_index \in {0 - 1, 0, Len(task[t2].snap) + 1}

\* C3: a remove that read the cache when view v was the latest view of its
\* requester to have written it read exactly the records v fetched: it validated
\* its index against them and took the id it deletes from them.
RemoveObservesLatestView ==
    \A t \in Removes : task[t].seen # 0 =>
        LET records == task[task[t].seen].fetched.details
        IN  /\ task[t].had /\ task[t].snap = records
            /\ InRange(task[t].event_index, records) =>
                  task[t].event_id_to_remove = records[task[t].event_index][1]
            /\ ~InRange(task[t].event_index, records) => task[t].calls = <<>>
            /\ \A i \in 1..Len(task[t].calls) :
                  task[t].calls[i] = <<"delete", records[task[t].event_index][1]>>

\* C3 witness: between a requester's view and the same requester's remove, which
\* made its delete call, another requester's view wrote different records.
RemoveAfterForeignView ==
    \E t \in Removes, v \in Views :
        /\ task[t].seen # 0 /\ task[t].calls # <<>>
        /\ task[v].who # task[t].who /\ task[v].wrote > 0
        /\ task[t].seen < v /\ v < t /\ task[v].pc = "done"
        /\ task[v].fetched.details # task[task[t].seen].fetched.details

\* C4: a requester has a cache entry exactly when one of its views has written
\* the cache, and the entry is exactly the record sequence fetched by the view
\* that wrote most recently.
CacheIsLatestWrite ==
    \A r \in Requesters :
        /\ r \in DOMAIN last_viewed_events <=> LastWriter(r) # 0
        /\ LastWriter(r) # 0 =>
              last_viewed_events[r] = task[LastWriter(r)].fetched.details

\* C4 witness: a requester's entry was written twice, the first time with a
\* non-empty sequence, the second time with a different non-empty one.
CacheReplaced ==
    \E v1 \in Views, v2 \in Views :
        /\ task[v1].who = task[v2].who
        /\ task[v1].wrote = 1 /\ task[v2].wrote = 2
        /\ task[v1].fetched.details # <<>> /\ task[v2].fetched.details # <<>>
        /\ task[v1].fetched.details # task[v2].fetched.details

RemoveStep ==
    \/ \E t \in Tasks, author \in Requesters, i \in IndexArgs : RemoveStart(t, author, i)
    \/ \E t \in Tasks, outcome \in DeleteOutcomes : RemoveDelete(t, outcome)
    \/ \E t \in Tasks : RemoveResume(t)

\* C5: no step of a remove command (its validation, its delete call whatever the
\* provider answers, its final message) changes the View State Cache.
RemoveLeavesCache == [][RemoveStep => last_viewed_events' = last_viewed_events]_vars

\* C5 witness: a remove has finished with the success message and its requester's
\* entry still holds the record of the deleted event at the same position.
RemovedRecordStillCached ==
    \E t \in Removes :
        /\ task[t].pc = "done"
        /\ task[t].out[Len(task[t].out)] = "Event removed successfully."
        /\ task[t].who \in DOMAIN last_viewed_events
        /\ last_viewed_events[task[t].who] = task[t].snap
        /\ task[t].snap[task[t].event_index][1] = task[t].event_id_to_remove

FetchSucceeded(v) ==
    /\ ~task[v].raised
    /\ task[v].fetched.summary.head \in {"**Schedule for", "No events found for"}

GoodWrites(r) ==
    {v \in Views : task[v].who = r /\ task[v].pc = "done" /\ FetchSucceeded(v)}

LastGoodWrite(r) ==
    CHOOSE v \in GoodWrites(r) : \A u \in GoodWrites(r) : task[u].wrote <= task[v].wrote

\* C6: a requester's cache entry is created or replaced only by a view whose
\* fetch succeeded: once a view of the requester has fetched successfully, the
\* entry is the record sequence of the latest such view, whatever views with a
\* failed fetch (HTTP error, exception in the fetcher, exception from the
\* offloaded call) the requester has made since.
FailedViewKeepsSnapshot ==
    \A r \in Requesters : GoodWrites(r) # {} =>
        /\ r \in DOMAIN last_viewed_events
        /\ last_viewed_events[r] = task[LastGoodWrite(r)].fetched.details

Overlap(v1, v2) ==
    /\ v1 \in task[v2].during
    /\ task[v1].pc = "done" /\ task[v2].pc = "done"
    /\ LastWriter(task[v2].who) \in {v1, v2}

\* C7 as stated: when the second of two views of one requester was issued while
\* the first was suspended on its fetch, then once both have finished (and no
\* later view has written) the entry holds the records of the second-issued one.
OverlapSecondIssuedWins ==
    \A v1 \in Views, v2 \in Views :
        Overlap(v1, v2) /\ FetchSucceeded(v1) /\ FetchSucceeded(v2) =>
            last_viewed_events[task[v2].who] = task[v2].fetched.details

\* C7 as amended: under the same conditions the entry holds the records of the
\* one of the two views that resumed from its fetch, and so wrote, last; a view
\* whose offloaded call raised writes nothing.
OverlapLastResumedWins ==
    \A v1 \in Views, v2 \in Views :
        Overlap(v1, v2) =>
            /\ task[v1].raised => task[v1].wrote = 0
            /\ task[v2].raised => task[v2].wrote = 0
            /\ last_viewed_events[task[v2].who] =
                  task[IF task[v1].wrote > task[v2].wrote THEN v1 ELSE v2].fetched.details

\* C7 witness: of two overlapping views that fetched different records, the
\* first-issued resumed last and its records are the cached ones.
OverlapFirstIssuedWroteLast ==
    \E v1 \in Views, v2 \in Views :
        /\ Overlap(v1, v2) /\ task[v2].wrote > 0 /\ task[v1].wrote > task[v2].wrote
        /\ task[v1].fetched.details # task[v2].fetched.details
        /\ last_viewed_events[task[v1].who] = task[v1].fetched.details

\* the time strings of TimeStrs that are no date or time
UnparseableTimeStrs == {"soon"}

TimeParseError == "Error: Could not understand the time"

CalendarIds == UNION {Ids(EventDetails(calendar[d])) : d \in DOMAIN calendar}

UnavailableIsNoOp ==
    ~calendar_service =>
        /\ \A t \in Issued :
              task[t].pc = "done" /\ task[t].calls = <<>> /\ task[t].out = <<Unavailable>>
        /\ DOMAIN last_viewed_events = {}
        /\ calendar = InitialCalendar(FirstDay)
        /\ loop.state = "stopped" /\ loop.calls = <<>> /\ loop.sent = <<>>

\* C9 witness: without a service, a view, an add and a remove have each been
\* answered.
AllCommandsUnavailable ==
    /\ ~calendar_service
    /\ Views # {} /\ Adds # {} /\ Removes # {}
    /\ \A t \in Tasks : task[t].out = <<Unavailable>>

\* C10: a weekday name, in any letter case, resolves to a date on that weekday
\* that is 1 to 7 days after the reference date.
WeekdayResolvesStrictlyAfter ==
    LET target_weekday == IndexOf(weekdays, Strip(Lower(day_str)))
    IN  dpc = "returned" /\ target_weekday >= 0 =>
            /\ resolved.ok
            /\ Weekday(resolved.date) = target_weekday
            /\ resolved.date - today \in 1..7

\* spellings of the three relative words among DayExprs
TodayExprs == { <<"t", "o", "d", "a", "y">>, <<"T", "O", "D", "A", "Y">> }

TomorrowExprs ==
    { <<"t", "o", "m", "o", "r", "r", "o", "w">>, <<"T", "o", "m", "o", "r", "r", "o", "w">> }

YesterdayExprs ==
    { <<"y", "e", "s", "t", "e", "r", "d", "a", "y">>,
      <<"Y", "e", "s", "t", "e", "r", "D", "a", "y">>,
      <<" ", "y", "e", "s", "t", "e", "r", "d", "a", "y", " ">> }

\* C11: for every reference date D, "today", "tomorrow" and "yesterday", in any
\* letter case, resolve to D, D + 1 and D - 1.
RelativeWordsResolve ==
    dpc = "returned" =>
        /\ day_str \in TodayExprs => resolved = SomeDate(today)
        /\ day_str \in TomorrowExprs => resolved = SomeDate(today + 1)
        /\ day_str \in YesterdayExprs => resolved = SomeDate(today - 1)

\* C11 witness: "Tomorrow", in mixed case, was resolved on a Sunday to the Monday
\* after it.
TomorrowResolvedOnSunday ==
    /\ dpc = "returned" /\ day_str = <<"T", "o", "m", "o", "r", "r", "o", "w">>
    /\ Weekday(today) = 6 /\ resolved.ok /\ resolved.date = today + 1

\* the lines of a text, split at its newlines
RECURSIVE SplitLines(_)
SplitLines(s) ==
    IF ~Contains(s, "\n") THEN <<s>>
    ELSE LET i == CHOOSE k \in 1..Len(s) :
                      /\ SubSeq(s, k, k) = "\n"
                      /\ \A j \in 1..(k - 1) : SubSeq(s, j, j) # "\n"
         IN  <<SubSeq(s, 1, i - 1)>> \o SplitLines(SubSeq(s, i + 1, Len(s)))

\* C12: when the list call succeeds with N >= 1 events, the text of the summary
\* has, after its header, exactly N lines, the k-th starting with the bracketed
\* index k; the record sequence has length N, and its k-th record carries the id
\* of the k-th event the provider returned and the time label and title written
\* on line k.
RenderingMatchesRecords ==
    LET items == ListEvents(calendar, today)
        N == Len(items)
        rows == Tail(SplitLines(Render(got.summary)))
    IN  fpc = "returned" /\ calendar_service /\ list_outcome = "ok" /\ N >= 1 =>
            /\ Len(rows) = N /\ Len(got.details) = N
            /\ \A k \in 1..N :
                  /\ StartsWith(rows[k], "[" \o ToString(k) \o "] ")
                  /\ got.details[k][1] = items[k].id
                  /\ rows[k] = "[" \o ToString(k) \o "] "
                                 \o LabelText(got.details[k][2]) \o ": " \o got.details[k][3]

\* C12 witness: a fetch returned three events whose ids are not in the order of
\* their positions, one of them all-day and one with no title.
ThreeEventsRendered ==
    /\ fpc = "returned" /\ Len(got.details) = 3
    /\ got.details[1][1] = "ev2" /\ got.details[2][1] = "ev0" /\ got.details[3][1] = "ev3"
    /\ got.details[3][3] = "No Title"
    /\ SplitLines(Render(got.summary))[2] = "[1] All Day: Holiday"

\* the list call was not made, or it failed
FetchFailure == ~calendar_service \/ list_outcome \in {"HttpError", "Exception"}

\* C13: get_events_for_day always returns; when the list call fails with an HTTP
\* error or any other exception (or there is no service) it returns a text that
\* starts with one of the error prefixes, together with no records, and the
\* test the caller applies to the prefix (line 98) is true exactly of the
\* failed fetches.
FetchFailsSoftly ==
    fpc = "returned" =>
        /\ FetchFailure =>
              /\ got.details = <<>> /\ got.summary.lines = <<>>
              /\ \/ StartsWith(Render(got.summary), "Error:")
                 \/ StartsWith(Render(got.summary), "An unexpected error")
        /\ list_outcome = "HttpError" /\ calendar_service =>
              Contains(Render(got.summary), HttpErrorText)
        /\ IsError(got.summary) <=> FetchFailure

\* C13 witness: the list call for a day with events raised an exception that is
\* no HttpError, and the fetcher returned the error text and no records.
ExceptionFetchReturned ==
    /\ fpc = "returned" /\ calendar_service /\ list_outcome = "Exception"
    /\ Len(ListEvents(calendar, today)) = 2
    /\ got.details = <<>> /\ StartsWith(got.summary.head, "An unexpected error")

Answered(t) == task[t].pc \in {"returned", "done"} /\ task[t].calls # <<>>

\* C14: a remove whose delete call the provider answered with 404 or 410 ends
\* with the warning, which is no error text; one answered with any other HTTP
\* failure ends with the HTTP error text; one whose delete succeeded ends with
\* the success text.
NotFoundIsBenign ==
    \A t \in Removes : Answered(t) =>
        /\ task[t].status \in {404, 410} =>
              /\ task[t].result = "Event not found. It might have been already deleted."
              /\ ~StartsWith(task[t].result, "Error:")
              /\ ~StartsWith(task[t].result, "An unexpected error")
        /\ task[t].status = 500 =>
              /\ StartsWith(task[t].result, "Error: An HTTP error occurred")
              /\ Contains(task[t].result, HttpErrorText)
        /\ task[t].status = 204 => task[t].result = "Event removed successfully."
        /\ task[t].pc = "done" => task[t].out[Len(task[t].out)] = task[t].result

\* C14 witness: one remove deleted an event, and a later remove of the same id
\* was answered 410 and ended with the warning.
GoneAfterDelete ==
    \E t1 \in Removes, t2 \in Removes :
        /\ task[t1].status = 204 /\ task[t2].status = 410 /\ task[t2].pc = "done"
        /\ task[t1].event_id_to_remove = task[t2].event_id_to_remove
        /\ task[t2].out[2] = "Event not found. It might have been already deleted."

CallOf(kind) ==
    IF kind = "view" THEN "list" ELSE IF kind = "add" THEN "insert" ELSE "delete"

\* C15: every command makes at most one provider call, of the kind of the
\* command (view: list, add: insert, remove: delete), also when the call failed.
NoProviderRetry ==
    \A t \in Issued :
        /\ Len(task[t].calls) <= 1
        /\ \A i \in 1..Len(task[t].calls) : task[t].calls[i][1] = CallOf(task[t].kind)

\* C15 witness: a view has made its list call, and a remove whose delete call
\* was answered with HTTP 500 and an add whose insert call raised have both
\* finished with their one call.
FailedCallsNotRepeated ==
    \E v \in Views, r \in Removes, a \in Adds :
        /\ Len(task[v].calls) = 1
        /\ task[r].pc = "done" /\ task[r].status = 500 /\ Len(task[r].calls) = 1
        /\ task[a].pc = "done" /\ Len(task[a].calls) = 1
        /\ StartsWith(task[a].result, "An unexpected error")

Running == {i \in Instances : cogs[i].loop.state # "stopped"}

FiredToday == {i \in Instances : cogs[i].loop.fired_on = today}

\* C16: however often on_ready occurs, at most one daily-summary loop is
\* running, and on any day at most one firing happens: at most one fetch for
\* the day and at most one summary delivered.
OneLoopOneFiringADay ==
    /\ Cardinality(Running) <= 1
    /\ Cardinality(FiredToday) <= 1
    /\ Cardinality({i \in FiredToday : cogs[i].loop.calls # <<>>}) <= 1
    /\ Cardinality({i \in FiredToday : cogs[i].loop.sent # <<>>}) <= 1

Firing(l) == l.state \in {"channel", "calling", "returned"}

NoEvents(summary) == StartsWith(summary.head, "No events found")

\* the message a firing of instance i hands over in this step, and the summary
\* it is built from
Delivers(i) ==
    /\ i \in Instances /\ cogs[i].loop.state = "returned"
    /\ cogs'[i].loop.state = "waiting" /\ cogs'[i].loop.sent # <<>>

FetchesToday ==
    \A i \in Instances :
        \A k \in 1..Len(cogs[i].loop.calls) :
            /\ cogs[i].loop.calls[k][1] = "list"
            /\ cogs[i].loop.calls[k][2] >= cogs[i].loop.fired_on
            /\ cogs[i].loop.state \in {"calling", "returned"} =>
                  cogs[i].loop.calls[k][2] = cogs[i].loop.today

\* C17 as stated: a firing fetches the date it reads at line 88; when the
\* summary signals an error or no events, the message is a degraded-mode
\* message whose text does not contain the text of the raw summary; otherwise
\* the message is the summary with its header retitled and its lines unchanged.
DegradedMessageOmitsSummary ==
    /\ []FetchesToday
    /\ [][\A i \in 1..MaxReady : Delivers(i) =>
            LET raw == SummaryText(cogs[i].loop)
                message == cogs'[i].loop.sent[1]
            IN  IF IsError(raw) \/ NoEvents(raw)
                THEN /\ message # DailyMessageRaw(raw, cogs[i].loop.today)
                     /\ ~Contains(RenderDaily(message), Render(raw))
                ELSE /\ message.head = "**Schedule for Today"
                     /\ message.lines = raw.lines
                     /\ Tail(SplitLines(RenderDaily(message))) =
                            Tail(SplitLines(Render(raw)))]_vars

\* C17 as amended: for an error the message is the fixed notice followed by the
\* whole text of the raw summary; for no events it is the greeting, naming the
\* day, without the text of the raw summary; otherwise as stated.
DegradedMessageQuotesError ==
    /\ []FetchesToday
    /\ [][\A i \in 1..MaxReady : Delivers(i) =>
            LET raw == SummaryText(cogs[i].loop)
                message == cogs'[i].loop.sent[1]
            IN  IF IsError(raw)
                THEN RenderDaily(message) =
                        "Could not fetch daily schedule summary. Error: " \o Render(raw)
                ELSE IF NoEvents(raw)
                THEN /\ StartsWith(RenderDaily(message),
                                   "Good morning! No events scheduled for today")
                     /\ ~Contains(RenderDaily(message), Render(raw))
                ELSE /\ message.head = "**Schedule for Today"
                     /\ message.lines = raw.lines
                     /\ Tail(SplitLines(RenderDaily(message))) =
                            Tail(SplitLines(Render(raw)))]_vars

\* C17 witness: a firing whose fetch met an HTTP error delivered the notice with
\* the error summary in it.
ErrorSummaryDelivered ==
    \E i \in Instances :
        /\ cogs[i].loop.state = "waiting" /\ cogs[i].loop.sent # <<>>
        /\ Contains(RenderDaily(cogs[i].loop.sent[1]),
                    "Error: An HTTP error occurred while fetching the schedule")

LoopSteps ==
    {<<"waiting", "channel">>, <<"channel", "waiting">>, <<"channel", "calling">>,
     <<"calling", "returned">>, <<"returned", "waiting">>}

\* C18, the part a finite run can break: a loop that __init__ started is never
\* stopped; it moves only Waiting -> Firing (channel lookup, fetch, delivery)
\* -> Waiting, leaving a firing at a failed channel lookup or after the one
\* delivery attempt; a firing makes at most one fetch and at most one delivery.
LoopNeverStops ==
    \A i \in Instances :
        /\ cogs[i].loop.state = "stopped" <=> ~(cogs[i].service /\ notify_configured)
        /\ Len(cogs[i].loop.calls) <= 1 /\ Len(cogs[i].loop.sent) <= 1
        /\ cogs[i].loop.state \in {"channel", "calling"} =>
              cogs[i].loop.calls = <<>> /\ cogs[i].loop.sent = <<>>
        /\ cogs[i].loop.state = "returned" => cogs[i].loop.sent = <<>>

LoopMovesInCycle ==
    [][\A i \in Instances :
          \/ cogs'[i].loop.state = cogs[i].loop.state
          \/ <<cogs[i].loop.state, cogs'[i].loop.state>> \in LoopSteps]_vars

\* C18: the scheduler follows Idle -> Waiting -> Firing -> Waiting: with the
\* above, every firing, whatever fails in it, is followed by a return to
\* Waiting.
FiringReturnsToWaiting ==
    /\ []LoopNeverStops
    /\ LoopMovesInCycle
    /\ \A i \in 1..MaxReady :
          (i \in Instances /\ Firing(cogs[i].loop))
              ~> (i \in Instances /\ cogs[i].loop.state = "waiting")

\* C18 witness: a loop is waiting again after a firing that was not its first,
\* in which the fetch was made and the delivery failed.
WaitingAfterFailedFiring ==
    \E i \in Instances :
        /\ cogs[i].loop.again /\ cogs[i].loop.state = "waiting"
        /\ cogs[i].loop.calls # <<>> /\ cogs[i].loop.sent = <<>>

\* the answers the handlers give when an offloaded call raised (lines 156, 189,
\* 202, 232, 243)
GenericErrors ==
    {"Sorry, an error occurred while fetching the schedule.",
     "Sorry, an error occurred while adding the event.",
     "Sorry, an error occurred while removing the event.",
     "An unexpected error occurred while adding the event.",
     "An unexpected error occurred while removing the event."}

\* C19: a command whose provider operation raised an exception that is no
\* HttpError ends with a generic error message as its last message, and none of
\* its messages holds the text of the exception.
UnexpectedErrorIsGeneric ==
    \A t \in Issued :
        task[t].pc = "done" /\ task[t].threw \in {"Exception", "ExecutorError"} =>
            /\ task[t].out[Len(task[t].out)] \in GenericErrors
            /\ \A k \in 1..Len(task[t].out) : ~Contains(task[t].out[k], ExceptionText)

\* the text names the range 1 to n
NamesRange(text, n) == Contains(text, "1") /\ Contains(text, ToString(n))

OutOfRange(t) ==
    /\ task[t].kind = "remove" /\ calendar_service
    /\ task[t].had /\ Len(task[t].snap) >= 1
    /\ ~InRange(task[t].event_index, task[t].snap)

\* C20 as stated: a remove with an index outside 1..N of a snapshot of length
\* N >= 1 makes no delete call and ends with one validation error, which names
\* the range 1 to N.
OutOfRangeNamesRange ==
    \A t \in Tasks : OutOfRange(t) =>
        /\ task[t].pc = "done" /\ task[t].calls = <<>> /\ task[t].event_id_to_remove = ""
        /\ Len(task[t].out) = 1 /\ StartsWith(task[t].out[1], "Error:")
        /\ NamesRange(task[t].out[1], Len(task[t].snap))

\* C20 as amended: such a remove makes no delete call and ends with one
\* validation error, the invalid-ID text, which names the index it was given.
OutOfRangeNamesIndex ==
    \A t \in Tasks : OutOfRange(t) =>
        /\ task[t].pc = "done" /\ task[t].calls = <<>> /\ task[t].event_id_to_remove = ""
        /\ task[t].out = <<InvalidId(task[t].event_index)>>
        /\ StartsWith(task[t].out[1], "Error: Invalid ID")
        /\ Contains(task[t].out[1], "'" \o ToString(task[t].event_index) \o "'")

\* C20 witness: removes with index 0 and index 3 of a snapshot of two records
\* were each answered with the invalid-ID text.
OutOfRangeBothSides ==
    \E t1 \in Removes, t2 \in Removes :
        /\ OutOfRange(t1) /\ OutOfRange(t2)
        /\ Len(task[t1].snap) = 2 /\ task[t1].event_index = 0
        /\ Len(task[t2].snap) = 2 /\ task[t2].event_index = 3
        /\ task[t1].out = <<InvalidId(0)>> /\ task[t2].out = <<InvalidId(3)>>

\* remove t2 repeats remove t1: the same requester and index, reading the cache
\* with no write of the requester's views since t1 read it
Repeats(t1, t2, tasks) ==
    /\ t1 # t2 /\ tasks[t1].kind = "remove" /\ tasks[t2].kind = "remove"
    /\ tasks[t1].who = tasks[t2].who /\ tasks[t1].event_index = tasks[t2].event_index
    /\ tasks[t1].seen = tasks[t2].seen

Succeeded(t) ==
    task[t].pc = "done" /\ task[t].out[Len(task[t].out)] = "Event removed successfully."

\* the provider answered the delete call of t (with success or an HTTP status
\* about the event), the call neither failing otherwise nor being kept from it
ProviderAnswered(t) == task[t].calls # <<>> /\ task[t].status \in {204, 404, 410}

\* a remove of requester and index as t1, issued in this step after t1 succeeded
\* and reading what t1 read
RepeatedAfterSuccess(t1, t2) ==
    /\ Succeeded(t1) /\ task[t2].kind = "none" /\ Repeats(t1, t2, task')

\* C21: a remove issued after a successful remove of the same requester and
\* index, with no view of the requester having written the cache in between,
\* passes validation and is suspended on a delete of the same provider id; the
\* delete call it makes is for that id, and once the provider answers it (the
\* event being gone), the answer is 404 or 410 and the remove ends with the
\* not-found warning.
StaleIndexDoubleRemoval ==
    /\ [][\A t1 \in Tasks, t2 \in Tasks : RepeatedAfterSuccess(t1, t2) =>
            /\ task'[t2].pc = "calling"
            /\ task'[t2].snap = task[t1].snap
            /\ task'[t2].event_id_to_remove = task[t1].event_id_to_remove
            /\ task'[t2].out = <<"Attempting to remove event">>]_vars
    /\ [](\A t1 \in Tasks, t2 \in Tasks :
            Repeats(t1, t2, task) /\ task[t1].status = 204 =>
                /\ \A i \in 1..Len(task[t2].calls) :
                      task[t2].calls[i] = <<"delete", task[t1].event_id_to_remove>>
                /\ ProviderAnswered(t2) =>
                      /\ task[t2].status \in {404, 410}
                      /\ task[t2].result =
                            "Event not found. It might have been already deleted."
                      /\ task[t2].pc = "done" =>
                            task[t2].out[Len(task[t2].out)] = task[t2].result)

\* C21 witness: after one view, two removes of the same requester and index;
\* the first ended with the success text, the second, issued later, made a
\* delete call for the same id, was answered 404 and ended with the warning.
SecondRemoveNotFound ==
    \E t1 \in Removes, t2 \in Removes :
        /\ t1 < t2 /\ Repeats(t1, t2, task) /\ Succeeded(t1)
        /\ task[t2].pc = "done" /\ task[t2].status = 404
        /\ task[t2].calls = task[t1].calls
        /\ task[t2].out[Len(task[t2].out)] =
              "Event not found. It might have been already deleted."
        /\ Cardinality(Views) = 1

\* the cache entry of requester r, absent or a list
Entry(cache, r) == IF r \in DOMAIN cache THEN <<cache[r]>> ELSE <<>>

\* this step is a step of command t (its issue, its offloaded call or its
\* resumption)
StepOf(t) == task'[t] # task[t]

\* C22: no step of a command of requester A creates, changes or removes the
\* cache entry of another requester B; and every delete call of a remove by A
\* is for an id in the snapshot the remove read from A's own entry, which is
\* what a view of A fetched and wrote.
RequestersIsolated ==
    /\ [][\A t \in Tasks : StepOf(t) =>
            \A b \in Requesters \ {task'[t].who} :
                Entry(last_viewed_events', b) = Entry(last_viewed_events, b)]_vars
    /\ [](\A t \in Removes : \A i \in 1..Len(task[t].calls) :
            /\ task[t].calls[i][2] \in Ids(task[t].snap)
            /\ task[t].seen \in Views /\ task[task[t].seen].who = task[t].who
            /\ task[t].snap = task[task[t].seen].fetched.details)

\* C22 witness: two requesters hold different non-empty entries, and a remove of
\* one of them has deleted an event of its own snapshot that the other's entry
\* does not list; the other's entry is what that requester's view wrote.
ForeignEntryUntouched ==
    \E t \in Removes, v \in Views :
        /\ task[v].who # task[t].who /\ task[v].wrote > 0
        /\ task[t].pc = "done" /\ task[t].status = 204
        /\ task[v].who \in DOMAIN last_viewed_events
        /\ last_viewed_events[task[v].who] = task[v].fetched.details
        /\ task[v].fetched.details # <<>>
        /\ task[t].event_id_to_remove \notin Ids(task[v].fetched.details)
        /\ task[t].event_id_to_remove \in Ids(task[t].snap)

\* the ids of the events the provider holds
HeldIds(cal) == UNION {{cal[d][k].id : k \in 1..Len(cal[d])} : d \in DOMAIN cal}

\* remove t is suspended: its progress message is being sent, or its delete is
\* with the executor
Suspended(t) == task[t].kind = "remove" /\ task[t].pc = "calling"

\* C23: a remove binds the id it deletes when it reads its requester's entry,
\* in the segment that ends at its first suspension; while it is suspended no
\* step of another command changes that id, and the delete it then makes is
\* for that id, the one at its index in the snapshot it read, whatever the
\* requester's entry holds at that position by then.
RemoveBindsIdBeforeSuspension ==
    /\ [][\A t \in Tasks : Suspended(t) =>
            /\ task'[t].event_id_to_remove = task[t].event_id_to_remove
            /\ task'[t].snap = task[t].snap
            /\ (\E v \in Tasks \ {t} : StepOf(v)) => task'[t] = task[t]
            /\ task'[t].calls # <<>> =>
                  /\ task'[t].calls = <<<<"delete", task[t].event_id_to_remove>>>>
                  /\ HeldIds(calendar) \ HeldIds(calendar')
                        \subseteq {task[t].event_id_to_remove}]_vars
    /\ [](\A t \in Removes :
            /\ task[t].pc # "done" \/ task[t].calls # <<>> \/ task[t].raised =>
                  /\ InRange(task[t].event_index, task[t].snap)
                  /\ task[t].event_id_to_remove = task[t].snap[task[t].event_index][1]
            /\ \A i \in 1..Len(task[t].calls) :
                  task[t].calls[i] = <<"delete", task[t].snap[task[t].event_index][1]>>)

\* C23 witness: while a remove was suspended, a view of its requester replaced
\* the entry, so that another event's id stood at the remove's index when the
\* delete ran; the remove deleted the event of the snapshot it had read.
ViewReplacedCacheDuringRemove ==
    \E t \in Removes, v \in Views :
        /\ task[v].who = task[t].who /\ task[v].wrote > 0
        /\ task[t].seen # 0 /\ task[t].seen # v
        /\ task[t].pc = "done" /\ task[t].status = 204
        /\ task[t].reread # "" /\ task[t].reread # task[t].event_id_to_remove
        /\ task[t].reread = task[v].fetched.details[task[t].event_index][1]
        /\ task[t].calls = <<<<"delete", task[t].snap[task[t].event_index][1]>>>>

\* a finished call with no prefix whose text was not empty and fitted in one
\* message
FitsOneChunk ==
    /\ long_message.pc = "done" /\ long_message.prefix = <<>>
    /\ long_message.text # <<>> /\ Len(long_message.text) <= MAX_LENGTH

\* C24: send_long_message with an empty prefix and a non-empty text of at most
\* MAX_LENGTH characters sends exactly one message, which holds the whole text
\* (up to the whitespace at its ends, which line 28 strips), whether or not the
\* text holds newlines or spaces.
FittingTextSentWhole ==
    FitsOneChunk =>
        /\ Len(long_message.sent) = 1
        /\ Strip(long_message.sent[1]) = Strip(long_message.text)

\* this step runs the loop body once
LoopBodyRuns == long_message.pc = "loop" /\ long_message' # long_message
                    /\ long_message'.pc = "loop"

\* C25: for every text and every prefix shorter than MAX_LENGTH, each run of
\* the loop body moves current_pos strictly forward, never past len(text); the
\* bodies run number at most len(text); and the call returns, with current_pos
\* at len(text).
SendLongMessageTerminates ==
    /\ [][LoopBodyRuns =>
            /\ long_message'.current_pos > long_message.current_pos
            /\ long_message'.iterations = long_message.iterations + 1
            /\ long_message'.text = long_message.text]_vars
    /\ [](long_message.pc # "off" =>
            /\ Len(long_message.prefix) < MAX_LENGTH
            /\ 0 <= long_message.current_pos
            /\ long_message.current_pos <= Len(long_message.text)
            /\ long_message.iterations <= long_message.current_pos
            /\ long_message.iterations <= Len(long_message.text)
            /\ long_message.pc = "done" =>
                  long_message.current_pos = Len(long_message.text))
    /\ (long_message.pc = "loop") ~> (long_message.pc = "done")

\* C25 witness: a call with a prefix and a text longer than MAX_LENGTH, holding
\* spaces and newlines, has returned after three or more runs of the body.
LongTextSentInChunks ==
    /\ long_message.pc = "done"
    /\ long_message.prefix # <<>> /\ Len(long_message.text) > MAX_LENGTH
    /\ \E i \in 1..Len(long_message.text) : long_message.text[i] = " "
    /\ \E i \in 1..Len(long_message.text) : long_message.text[i] = "\n"
    /\ long_message.iterations >= 3
    /\ long_message.current_pos = Len(long_message.text)

====
